---- MODULE Spec2Model ----
(***************************************************************************)
(* Model of src/index.js: the Laravel Forge deployment action.             *)
(*                                                                         *)
(* main() validates four environment variables, issues one POST that       *)
(* creates a deployment, then pollDeployment() arms a setInterval timer    *)
(* whose async callback (a "cycle") checks the timeout, fetches the        *)
(* status, fetches the log, displays the new part of the log and           *)
(* classifies the status.  The callback is async, so a cycle that is       *)
(* waiting for a response does not stop the timer from starting the next   *)
(* cycle: cycles may overlap.                                              *)
(*                                                                         *)
(* Strings of log text are sequences of one-character strings.  Time is    *)
(* in milliseconds and advances at timer ticks.  The continuation of       *)
(* main() after the promise of pollDeployment settles runs as a microtask, *)
(* before any other callback, so settling and process.exit are one step.   *)
(***************************************************************************)
EXTENDS Integers, Sequences, FiniteSets, Bags, TLC

\* ---------------------------------------------------------------- constants
POLL_INTERVAL == 10000
TIMEOUT == 600000

\* ------------------------------------------------------------------- bounds
\* Poll cycles that may be waiting for a response at the same time.
MaxInFlight == 2
\* Longest log text the remote holds.
MaxLogLen == 2
\* Total lateness (ms) the timer may accumulate over a session.
MaxDrift == 1
\* Timer ticks explored by the short-horizon specifications.
MaxTicks == 2

\* ------------------------------------------------------------------ domains
EnvNames == {"FORGE_API_TOKEN", "FORGE_ORGANIZATION", "FORGE_SERVER_ID", "FORGE_SITE_ID"}

Chars == {"A", "B", " "}

LogValues == UNION {[1..k -> Chars] : k \in 0..MaxLogLen}

\* Status vocabulary of the remote: the seven documented values and one the
\* program has never heard of.
Statuses == {"pending", "queued", "deploying", "finished", "failed", "failed-build",
             "cancelled", "paused"}

\* One in-progress value and every terminal value, for the log specification.
LogStatuses == {"deploying", "finished", "failed", "failed-build", "cancelled"}

\* A smaller vocabulary with one value of each kind, for the long horizon.
FewStatuses == {"deploying", "finished", "failed", "cancelled", "paused"}

\* null / undefined of the program.
Null == <<"null">>

\* An Error: its message, with the numeric code or the status the message embeds.
NoError == [message |-> "", code |-> 0, status |-> ""]

Err(message) == [message |-> message, code |-> 0, status |-> ""]

VARIABLES
    pc,                  \* position of main(): "start", "creating", "polling", "exited"
    missing,             \* names of the environment variables that are unset or empty
    reported,            \* names printed by validateEnvironment
    exitCode,            \* -1 while the process runs, else the code given to process.exit
    error,               \* the Error caught by main(), NoError if none
    deploymentId,        \* what createDeployment returned
    now,                 \* Date.now()
    startTime,           \* pollDeployment: startTime
    timerArmed,          \* the setInterval timer exists and was not cleared
    promise,             \* promise of pollDeployment: "none", "pending", "fulfilled", "rejected"
    settleCalls,         \* number of resolve()/reject() calls made on it
    cycles,              \* bag of timer callbacks waiting for a response
    lastStatus,          \* pollDeployment: lastStatus
    lastDisplayedLength, \* pollDeployment: lastDisplayedLength (the LogCursor)
    remoteLog,           \* the log text the remote holds now
    appendOnly,          \* the remote log has only ever been extended
    emitted,             \* text printed by displayLogs in the last step (<<>> if none)
    shown,               \* what displayLogs has printed, concatenated (kept while appendOnly)
    diag,                \* the "Final Deployment Output" printed (Null if none)
    notified             \* the status announced by "Status:" in the last step ("" if none)

vars == <<pc, missing, reported, exitCode, error, deploymentId, now, startTime, timerArmed,
          promise, settleCalls, cycles, lastStatus, lastDisplayedLength, remoteLog,
          appendOnly, emitted, shown, diag, notified>>

\* ------------------------------------------------------------ pure functions
IsPrefix(s, t) == Len(s) <= Len(t) /\ SubSeq(t, 1, Len(s)) = s

\* String.prototype.substring(from) for 0 <= from <= length
Substring(s, from) == SubSeq(s, from + 1, Len(s))

\* String.prototype.trim(): non-empty exactly when some character is not blank
Trim(s) == SelectSeq(s, LAMBDA ch : ch # " ")

\* JavaScript truthiness of a string-or-null value
Truthy(v) == v # Null /\ v # <<>>

\* The required variables, in the order validateEnvironment lists them.
Required == <<"FORGE_API_TOKEN", "FORGE_ORGANIZATION", "FORGE_SERVER_ID", "FORGE_SITE_ID">>

\* Mutant: validation stops at the first variable that is missing.
validateEnvironmentFirst(unset) ==
    {Required[i] : i \in {j \in 1..Len(Required) :
                            /\ Required[j] \in unset
                            /\ \A k \in 1..(j - 1) : Required[k] \notin unset}}

\* validateEnvironment lines 27-29: the names it reports, given the set of
\* variables that are unset or empty.
validateEnvironment(unset) == {Required[i] : i \in {j \in 1..Len(Required) : Required[j] \in unset}}

\* handleApiError: the message of the Error it throws
errorMessages ==
    [c \in {401, 403, 404, 422, 429, 500, 503} |->
        CASE c = 401 -> "Authentication failed. Please check your FORGE_API_TOKEN."
          [] c = 403 -> "Access forbidden. You do not have permission to perform this action."
          [] c = 404 -> "Resource not found. Please check your organization, server, and site IDs."
          [] c = 422 -> "Unprocessable entity. Invalid request data."
          [] c = 429 -> "Rate limit exceeded. Please try again later."
          [] c = 500 -> "Forge server error. Please try again later."
          [] c = 503 -> "Forge is offline for maintenance."]

handleApiError(statusCode) ==
    IF statusCode \in DOMAIN errorMessages
    THEN Err(errorMessages[statusCode])
    ELSE [message |-> "API request failed with status", code |-> statusCode, status |-> ""]

\* makeForgeRequest: a reply is a rejection (transport or JSON parse failure)
\* or a resolution {statusCode, data}; body abstracts the parsed data.
Rejections == {[kind |-> "transport", code |-> 0, body |-> "none"],
               [kind |-> "parse", code |-> 0, body |-> "none"]}

Replies(codes, bodies) ==
    Rejections \cup {[kind |-> "http", code |-> c, body |-> b] : c \in codes, b \in bodies}

RejectionError(reply) ==
    IF reply.kind = "transport"
    THEN Err("Request failed")
    ELSE Err("Failed to parse JSON response")

\* Mutant: the status code of the reply is not looked at.
getDeploymentStatusAnyCode(reply) ==
    IF reply.kind # "http" \/ reply.body \in {"none", "nodata", "noattributes"}
    THEN [present |-> FALSE, status |-> ""]
    ELSE [present |-> TRUE, status |-> reply.body]

\* getDeploymentStatus: the attributes (their status), or nothing when the
\* request was rejected, the status code is not 200, or the payload has no
\* attributes.
NoDeployment == [present |-> FALSE, status |-> ""]

getDeploymentStatus(reply) ==
    IF reply.kind # "http" THEN NoDeployment
    ELSE IF reply.code # 200 THEN NoDeployment
    ELSE IF reply.body \in {"nodata", "noattributes"} THEN NoDeployment
    ELSE [present |-> TRUE, status |-> reply.body]

\* Mutant: the status code of the log reply is not looked at.
getDeploymentOutputAnyCode(reply, log) ==
    IF reply.kind # "http" THEN Null
    ELSE IF reply.body = "nodata" THEN Null
    ELSE IF reply.body = "nooutput" THEN <<>>
    ELSE log

\* getDeploymentOutput: the output text, '' when the attribute is absent,
\* Null when the request was rejected, not 200, or the payload has no data.
getDeploymentOutput(reply, log) ==
    IF reply.kind # "http" THEN Null
    ELSE IF reply.code # 200 THEN Null
    ELSE IF reply.body = "nodata" THEN Null
    ELSE IF reply.body = "nooutput" THEN <<>>
    ELSE log

\* Mutant: the cursor follows the fetched log without the length guard.
displayLogsUnguarded(output, last) == IF Truthy(output) THEN Len(output) ELSE last

\* Mutant: the whole fetched log is printed again, not its new part.
displayLogsPrintedWhole(output, last) ==
    IF ~Truthy(output) \/ Len(output) <= last THEN <<>>
    ELSE IF Trim(SubSeq(output, last + 1, Len(output))) # <<>> THEN output
    ELSE <<>>

\* Mutant: the cursor advances only past text that was printed.
displayLogsKeepOnBlank(output, last) ==
    IF ~Truthy(output) \/ Len(output) <= last THEN last
    ELSE IF Trim(Substring(output, last)) # <<>> THEN Len(output)
    ELSE last

\* displayLogs: the value it returns (the new cursor)
displayLogs(output, last) ==
    IF ~Truthy(output) \/ Len(output) <= last THEN last ELSE Len(output)

\* displayLogs: the text it prints (<<>> when it prints nothing)
displayLogsPrinted(output, last) ==
    IF ~Truthy(output) \/ Len(output) <= last THEN <<>>
    ELSE IF Trim(Substring(output, last)) # <<>> THEN Substring(output, last)
    ELSE <<>>

\* Mutant: the ceiling itself already counts as expired.
TimedOutInclusive(t) == t - startTime >= TIMEOUT

\* pollDeployment line 208: the timeout test
TimedOut(t) == t - startTime > TIMEOUT

\* Mutant: an exhaustive match that treats any status it does not know as fatal.
IsCancelledOrUnknown(status) ==
    status \notin {"pending", "queued", "deploying", "finished", "failed", "failed-build"}

\* pollDeployment lines 238-257: classification of a status
IsFinished(status) == status = "finished"

IsFailed(status) == status = "failed" \/ status = "failed-build"

IsCancelled(status) == status = "cancelled"

\* The session state of the polling phase, read off the promise.
State ==
    CASE promise = "pending" -> "RUNNING"
      [] promise = "fulfilled" -> "SUCCEEDED"
      [] promise = "rejected" /\ error.message = "Deployment timeout" -> "TIMED_OUT"
      [] promise = "rejected" -> "FAILED"
      [] OTHER -> "NONE"

\* --------------------------------------------------------------------- Init
Init ==
    /\ pc = "start"
    /\ missing \in SUBSET EnvNames
    /\ reported = {}
    /\ exitCode = -1
    /\ error = NoError
    /\ deploymentId = "none"
    /\ now = 0
    /\ startTime = 0
    /\ timerArmed = FALSE
    /\ promise = "none"
    /\ settleCalls = 0
    /\ cycles = EmptyBag
    /\ lastStatus = ""
    /\ lastDisplayedLength = 0
    /\ remoteLog = <<>>
    /\ appendOnly = TRUE
    /\ emitted = <<>>
    /\ shown = <<>>
    /\ diag = Null
    /\ notified = ""

\* ------------------------------------------------------------------ helpers
\* Mutant: main() sets the exit code but leaves the event loop running.
ProcessExitCodeOnly(code, err) ==
    /\ pc' = pc
    /\ exitCode' = code
    /\ error' = err

\* Mutant: main() exits with code 0 on every path.
ProcessExitZero(code, err) ==
    /\ pc' = "exited"
    /\ exitCode' = 0
    /\ error' = err

\* process.exit(code) in main(), with the error main() caught
ProcessExit(code, err) ==
    /\ pc' = "exited"
    /\ exitCode' = code
    /\ error' = err

\* Mutant: the interval is left running.
ClearIntervalForgotten == timerArmed' = timerArmed

\* clearInterval(pollInterval)
ClearInterval == timerArmed' = FALSE

\* resolve(...) at line 241, then main() lines 284-286
Resolve ==
    /\ promise' = "fulfilled"
    /\ settleCalls' = settleCalls + 1
    /\ ProcessExit(0, NoError)

\* reject(err) at lines 211, 253, 256, then main() lines 288-291
Reject(err) ==
    /\ promise' = "rejected"
    /\ settleCalls' = settleCalls + 1
    /\ ProcessExit(1, err)

\* Lateness the timer has accumulated so far.
Drift == (now - startTime) % POLL_INTERVAL

\* A cycle waiting for its status, its log or its final log: the request it
\* sent, and the status it holds.
StatusWait == [at |-> "status", status |-> ""]

LogWait(status) == [at |-> "log", status |-> status]

FinalWait(status) == [at |-> "final", status |-> status]

Without(c) == cycles (-) SetToBag({c})

With(bag, c) == bag (+) SetToBag({c})

\* ------------------------------------------------------------------ actions
\* main() up to its first await: validateEnvironment, then createDeployment
\* sends the POST.
Start ==
    /\ pc = "start"
    /\ IF validateEnvironment(missing) # {}
       THEN /\ reported' = validateEnvironment(missing)
            /\ ProcessExit(1, NoError)
       ELSE /\ pc' = "creating"
            /\ UNCHANGED <<reported, exitCode, error>>
    /\ UNCHANGED <<missing, deploymentId, now, startTime, timerArmed, promise, settleCalls,
                   cycles, lastStatus, lastDisplayedLength, remoteLog, appendOnly, emitted,
                   shown, diag, notified>>

\* Mutant: every 2xx status counts as created.
IsCreatedAny2xx(statusCode) == statusCode \in 200..299

\* createDeployment line 122: the only status that counts as created
IsCreated(statusCode) == statusCode = 202

\* The POST answers with reply: createDeployment finishes and, on success,
\* main() calls pollDeployment, which notes the start time and arms the timer.
CreateReply(reply) ==
    /\ pc = "creating"
    /\ IF reply.kind # "http"
       THEN /\ ProcessExit(1, RejectionError(reply))
            /\ UNCHANGED <<deploymentId, startTime, timerArmed, promise>>
       ELSE IF ~IsCreated(reply.code)
       THEN /\ ProcessExit(1, handleApiError(reply.code))
            /\ UNCHANGED <<deploymentId, startTime, timerArmed, promise>>
       ELSE IF reply.body = "nodata"
       THEN /\ ProcessExit(1, Err("TypeError"))
            /\ UNCHANGED <<deploymentId, startTime, timerArmed, promise>>
       ELSE /\ deploymentId' = IF reply.body = "id" THEN "id" ELSE "undefined"
            /\ pc' = "polling"
            /\ startTime' = now
            /\ timerArmed' = TRUE
            /\ promise' = "pending"
            /\ UNCHANGED <<exitCode, error>>
    /\ UNCHANGED <<missing, reported, now, settleCalls, cycles, lastStatus,
                   lastDisplayedLength, remoteLog, appendOnly, emitted, shown, diag, notified>>

TriggerReplies ==
    Replies({202, 200, 204, 401, 403, 404, 418, 422, 429, 500, 503}, {"id", "noid", "nodata"})

CreateResponse == \E reply \in TriggerReplies : CreateReply(reply)

\* Mutant: a tick that finds a cycle still waiting for a response is skipped
\* whole, its timeout test included.
TimerTickWhenIdle(horizon, maxDrift) ==
    /\ pc = "polling"
    /\ timerArmed
    /\ now - startTime < horizon
    /\ emitted' = <<>>
    /\ notified' = ""
    /\ \E d \in 0..(maxDrift - Drift) :
        /\ now' = now + POLL_INTERVAL + d
        /\ IF cycles # EmptyBag
           THEN UNCHANGED <<pc, exitCode, error, timerArmed, promise, settleCalls, cycles>>
           ELSE IF TimedOut(now')
           THEN /\ ClearInterval
                /\ Reject(Err("Deployment timeout"))
                /\ UNCHANGED cycles
           ELSE /\ cycles' = With(cycles, StatusWait)
                /\ UNCHANGED <<pc, exitCode, error, timerArmed, promise, settleCalls>>
    /\ UNCHANGED <<missing, reported, deploymentId, startTime, lastStatus,
                   lastDisplayedLength, remoteLog, appendOnly, shown, diag>>

\* The timer fires: the callback tests the timeout and, if it has not
\* expired, sends the status request and waits.
TimerTick(horizon, maxDrift) ==
    /\ pc = "polling"
    /\ timerArmed
    /\ now - startTime < horizon
    /\ emitted' = <<>>
    /\ notified' = ""
    /\ \E d \in 0..(maxDrift - Drift) :
        /\ now' = now + POLL_INTERVAL + d
        /\ IF TimedOut(now')
           THEN /\ ClearInterval
                /\ Reject(Err("Deployment timeout"))
                /\ UNCHANGED cycles
           ELSE /\ BagCardinality(cycles) < MaxInFlight
                /\ cycles' = With(cycles, StatusWait)
                /\ UNCHANGED <<pc, exitCode, error, timerArmed, promise, settleCalls>>
    /\ UNCHANGED <<missing, reported, deploymentId, startTime, lastStatus,
                   lastDisplayedLength, remoteLog, appendOnly, shown, diag>>

\* The timer fires before the timeout and the status request the callback
\* sends (line 216) is never answered: the callback waits for ever and does
\* nothing more, so it is not kept among the cycles.
TimerTickUnanswered(horizon, maxDrift) ==
    /\ pc = "polling"
    /\ timerArmed
    /\ now - startTime < horizon
    /\ emitted' = <<>>
    /\ notified' = ""
    /\ \E d \in 0..(maxDrift - Drift) :
        /\ now' = now + POLL_INTERVAL + d
        /\ ~TimedOut(now')
    /\ UNCHANGED <<pc, missing, reported, exitCode, error, deploymentId, startTime, timerArmed,
                   promise, settleCalls, cycles, lastStatus, lastDisplayedLength, remoteLog,
                   appendOnly, shown, diag>>

\* Mutant: every poll counts as a change of status.
StatusChangedAlways(status) == TRUE

\* pollDeployment line 226: the fetched status differs from the last one noted
StatusChanged(status) == status # lastStatus

\* The status request of a cycle answers with reply (lines 216-232): a failed
\* fetch ends the cycle; otherwise the status is noted and the log request is
\* sent.
StatusReply(reply) ==
    /\ pc = "polling"
    /\ BagIn(StatusWait, cycles)
    /\ emitted' = <<>>
    /\ LET deployment == getDeploymentStatus(reply) IN
        IF ~deployment.present
        THEN /\ cycles' = Without(StatusWait)
             /\ notified' = ""
             /\ UNCHANGED lastStatus
        ELSE /\ notified' = IF StatusChanged(deployment.status) THEN deployment.status ELSE ""
             /\ lastStatus' = deployment.status
             /\ cycles' = With(Without(StatusWait), LogWait(deployment.status))
    /\ UNCHANGED <<pc, missing, reported, exitCode, error, deploymentId, now, startTime,
                   timerArmed, promise, settleCalls, lastDisplayedLength, remoteLog,
                   appendOnly, shown, diag>>

StatusReplies(statuses) == Replies({200, 500}, {"nodata", "noattributes"} \cup statuses)

StatusResponse(statuses) == \E reply \in StatusReplies(statuses) : StatusReply(reply)

\* The log request of cycle c answers with reply (lines 232-257): new log text
\* is displayed, then the status the cycle fetched is classified.
LogReply(c, reply) ==
    /\ pc = "polling"
    /\ BagIn(c, cycles)
    /\ c.at = "log"
    /\ LET output == getDeploymentOutput(reply, remoteLog) IN
        /\ lastDisplayedLength' =
              IF Truthy(output) THEN displayLogs(output, lastDisplayedLength)
              ELSE lastDisplayedLength
        /\ emitted' =
              IF Truthy(output) THEN displayLogsPrinted(output, lastDisplayedLength)
              ELSE <<>>
        /\ shown' = IF appendOnly THEN shown \o emitted' ELSE <<>>
    /\ notified' = ""
    /\ IF IsFinished(c.status)
       THEN /\ ClearInterval
            /\ Resolve
            /\ cycles' = Without(c)
       ELSE IF IsFailed(c.status)
       THEN /\ ClearInterval
            /\ cycles' = With(Without(c), FinalWait(c.status))
            /\ UNCHANGED <<pc, exitCode, error, promise, settleCalls>>
       ELSE IF IsCancelled(c.status)
       THEN /\ ClearInterval
            /\ Reject(Err("Deployment was cancelled"))
            /\ cycles' = Without(c)
       ELSE /\ cycles' = Without(c)
            /\ UNCHANGED <<pc, exitCode, error, timerArmed, promise, settleCalls>>
    /\ UNCHANGED <<missing, reported, deploymentId, now, startTime, lastStatus, remoteLog,
                   appendOnly, diag>>

LogReplies == Replies({200, 500}, {"nodata", "nooutput", "output"})

LogResponse == \E c \in BagToSet(cycles), reply \in LogReplies : LogReply(c, reply)

\* The log request of cycle c answers 200 with an output that is truthy but not
\* a string (lines 232-234): displayLogs throws at output.substring (184), and
\* the catch at 259-262 clears the timer and rejects with the TypeError.
LogReplyThrows(c) ==
    /\ pc = "polling"
    /\ BagIn(c, cycles)
    /\ c.at = "log"
    /\ emitted' = <<>>
    /\ notified' = ""
    /\ ClearInterval
    /\ Reject(Err("output.substring is not a function"))
    /\ cycles' = Without(c)
    /\ UNCHANGED <<missing, reported, deploymentId, now, startTime, lastStatus,
                   lastDisplayedLength, remoteLog, appendOnly, shown, diag>>

LogFault == \E c \in BagToSet(cycles) : LogReplyThrows(c)

\* Mutant: the final dump prints only what was not displayed before.
finalOutputPrintedNewOnly(finalOutput) ==
    IF displayLogsPrinted(finalOutput, lastDisplayedLength) = <<>> THEN Null
    ELSE displayLogsPrinted(finalOutput, lastDisplayedLength)

\* pollDeployment lines 247-251: what the final dump prints (Null: nothing)
finalOutputPrinted(finalOutput) == IF Truthy(finalOutput) THEN finalOutput ELSE Null

\* The final log request of a failed deployment answers (lines 246-253).
FinalLogReply(c, reply) ==
    /\ pc = "polling"
    /\ BagIn(c, cycles)
    /\ c.at = "final"
    /\ emitted' = <<>>
    /\ notified' = ""
    /\ diag' = finalOutputPrinted(getDeploymentOutput(reply, remoteLog))
    /\ Reject([message |-> "Deployment", code |-> 0, status |-> c.status])
    /\ cycles' = Without(c)
    /\ UNCHANGED <<missing, reported, deploymentId, now, startTime, timerArmed, lastStatus,
                   lastDisplayedLength, remoteLog, appendOnly, shown>>

FinalLogResponse == \E c \in BagToSet(cycles), reply \in LogReplies : FinalLogReply(c, reply)

\* The remote's deployment writes its log: it appends a character, or (a
\* rewritten or rotated log) drops the last one.
RemoteLogChange ==
    /\ pc = "polling"
    /\ emitted' = <<>>
    /\ notified' = ""
    /\ \/ \E ch \in Chars :
            /\ Len(remoteLog) < MaxLogLen
            /\ remoteLog' = Append(remoteLog, ch)
            /\ UNCHANGED <<appendOnly, shown>>
       \/ /\ remoteLog # <<>>
          /\ remoteLog' = SubSeq(remoteLog, 1, Len(remoteLog) - 1)
          /\ appendOnly' = FALSE
          /\ shown' = <<>>
    /\ UNCHANGED <<pc, missing, reported, exitCode, error, deploymentId, now, startTime,
                   timerArmed, promise, settleCalls, cycles, lastStatus,
                   lastDisplayedLength, diag>>

\* ----------------------------------------------------------- specifications
\* The whole session up to and beyond the timeout, with a log that stays empty.
Tick == TimerTick(TIMEOUT + POLL_INTERVAL, MaxDrift)

PollStatus == StatusResponse(FewStatuses)

Next ==
    \/ Start
    \/ CreateResponse
    \/ Tick
    \/ PollStatus
    \/ LogResponse
    \/ FinalLogResponse

Spec == Init /\ [][Next]_vars

\* The first MaxTicks cycles of a session, with a log that the remote writes
\* and rewrites.
EarlyTick == TimerTick(MaxTicks * POLL_INTERVAL, 0)

PollAnyStatus == StatusResponse(LogStatuses)

NextLog ==
    \/ Start
    \/ CreateResponse
    \/ EarlyTick
    \/ PollAnyStatus
    \/ LogResponse
    \/ FinalLogResponse
    \/ RemoteLogChange

SpecLog == Init /\ [][NextLog]_vars

\* The first MaxTicks cycles of a session, with the whole status vocabulary
\* and a log that stays empty.
PollEveryStatus == StatusResponse(Statuses)

NextStatus ==
    \/ Start
    \/ CreateResponse
    \/ EarlyTick
    \/ PollEveryStatus
    \/ LogResponse
    \/ FinalLogResponse

SpecStatus == Init /\ [][NextStatus]_vars

\* The whole session, with a remote whose log output may not be a string.
NextFault ==
    \/ Next
    \/ LogFault

SpecFault == Init /\ [][NextFault]_vars

\* The whole session with requests that may never be answered, and a timer
\* that keeps firing while it is armed (setInterval does not depend on the
\* callbacks it started).
LostTick == TimerTickUnanswered(TIMEOUT + POLL_INTERVAL, MaxDrift)

NextFair ==
    \/ Next
    \/ LostTick

SpecFair == Init /\ [][NextFair]_vars /\ WF_vars(Tick \/ LostTick)

\* ------------------------------------------------------------------- claims
Terminal == {"SUCCEEDED", "FAILED", "TIMED_OUT"}

\* Cycles of the bag that wait for the given request.
Waiting(bag, at) ==
    BagCardinality([c \in {x \in BagToSet(bag) : x.at = at} |-> bag[c]])

\* The step sends a status, log or final-log request.
SendsRequest ==
    \E at \in {"status", "log", "final"} : Waiting(cycles', at) > Waiting(cycles, at)

\* C1: when the last status a fetch returned is finished (returned before the
\* ceiling was exceeded) and no terminal failure was reported, the session
\* has resolved SUCCEEDED by the time the process exits.
C1_FinishedSucceeds ==
    (pc = "exited" /\ lastStatus = "finished" /\ State # "FAILED") => State = "SUCCEEDED"

C3_TimesOut ==
    [][/\ (now' # now /\ now' - startTime' > TIMEOUT) =>
            /\ State' = "TIMED_OUT"
            /\ exitCode' = 1
            /\ ~timerArmed'
            /\ cycles' = cycles
       /\ (now' # now /\ now' - startTime' <= TIMEOUT) => State' = "RUNNING"
       /\ State' = "TIMED_OUT" => now' - startTime' > TIMEOUT
       /\ State = "TIMED_OUT" => ~SendsRequest]_vars

\* C3 witness: the status stayed deploying and the session timed out at the
\* first tick past the ceiling (the tick at exactly TIMEOUT does not expire).
C3_Witness ==
    /\ State = "TIMED_OUT"
    /\ lastStatus = "deploying"
    /\ now - startTime = TIMEOUT + POLL_INTERVAL

\* C4: resolve/reject is called at most once in a session, a terminal outcome
\* exists exactly when it was called, and once an outcome exists neither the
\* outcome nor the exit code ever changes, whatever is still in flight.
C4_ResolvesOnce ==
    [][/\ settleCalls' <= 1
       /\ (State' \in Terminal) <=> (settleCalls' = 1)
       /\ State \in Terminal =>
            /\ State' = State
            /\ settleCalls' = settleCalls
            /\ exitCode' = exitCode]_vars

\* C4 witness: the timeout fired while a cycle that had fetched finished was
\* still waiting for its log.
C4_Witness == State = "TIMED_OUT" /\ BagIn(LogWait("finished"), cycles)

\* The reply that carries the remote's log text.
OkOutput == [kind |-> "http", code |-> 200, body |-> "output"]

\* Replies to a status request that the claims count as a failed fetch: a
\* transport error, a JSON parse error, a status other than 200, or a payload
\* without data or attributes.
FailedStatusReplies ==
    {r \in StatusReplies(Statuses) :
        r.kind # "http" \/ r.code # 200 \/ r.body \in {"nodata", "noattributes"}}

\* C5: a cycle whose status fetch fails ends without any effect: the session
\* stays RUNNING, no request is sent, lastStatus, the cursor and the timer are
\* as before; and a status fetch that succeeds, whatever failed before it, is
\* noted and followed by the log request.  Stated per step in which a
\* cycle leaves its wait for the status: the step has these effects, or it is
\* not the handling of a failed fetch.
C5_FailedFetchIsSkipped ==
    [][CopiesIn(StatusWait, cycles') < CopiesIn(StatusWait, cycles) =>
        /\ \/ /\ State' = "RUNNING"
              /\ pc' = "polling"
              /\ exitCode' = -1
              /\ ~SendsRequest
              /\ cycles' = Without(StatusWait)
              /\ UNCHANGED <<lastStatus, lastDisplayedLength, timerArmed, shown, diag>>
           \/ \A reply \in FailedStatusReplies : ~StatusReply(reply)
        /\ \A status \in Statuses :
              StatusReply([kind |-> "http", code |-> 200, body |-> status]) =>
                  /\ lastStatus' = status
                  /\ Waiting(cycles', "log") = Waiting(cycles, "log") + 1]_vars

\* C5 witness: every earlier cycle ended without noting a status (its fetch
\* failed), the session is still running with the timer armed and the cursor
\* at 0, and the next cycle has been started by the timer.
C5_Witness ==
    /\ pc = "polling"
    /\ timerArmed
    /\ now - startTime >= 2 * POLL_INTERVAL
    /\ lastStatus = ""
    /\ lastDisplayedLength = 0
    /\ cycles = SetToBag({StatusWait})

\* C6: the POST is sent only by the step that leaves "start", which never
\* recurs; a reply that is a transport or parse failure or carries a status
\* other than 202 ends the process with exit code 1 and the classified error
\* (404: resource not found; a code outside the table: the generic message
\* with the code) before pollDeployment is entered: no promise, no timer and
\* no status or log request ever exist.
C6_TriggerFailsFast ==
    [][/\ pc # "start" => pc' # "start"
       /\ pc' = "creating" => pc = "start"
       /\ \A reply \in TriggerReplies :
            (CreateReply(reply) /\ (reply.kind # "http" \/ reply.code # 202)) =>
                /\ pc' = "exited"
                /\ exitCode' = 1
                /\ error' # NoError
                /\ reply.kind = "transport" => error'.message = "Request failed"
                /\ (reply.kind = "http" /\ reply.code = 404) =>
                      error'.message =
                        "Resource not found. Please check your organization, server, and site IDs."
                /\ (reply.kind = "http" /\ reply.code \in {200, 204, 418}) =>
                      /\ error'.message = "API request failed with status"
                      /\ error'.code = reply.code
       /\ promise' = "none" => (cycles' = EmptyBag /\ ~timerArmed' /\ ~SendsRequest)]_vars

\* C6 witness: the trigger answered 404 and the process exited without ever
\* polling.
C6_Witness ==
    /\ pc = "exited"
    /\ exitCode = 1
    /\ promise = "none"
    /\ error.message =
         "Resource not found. Please check your organization, server, and site IDs."

\* C7: the cursor is 0 until the session starts polling and never decreases;
\* a log fetch that fails, or returns a log no longer than the cursor
\* (shorter, equal, empty or absent), prints nothing and leaves the cursor
\* as it is: a step that prints or moves the cursor is never the handling of
\* such a fetch.
C7_CursorMonotone ==
    [][/\ lastDisplayedLength' >= lastDisplayedLength
       /\ pc' \in {"start", "creating"} => lastDisplayedLength' = 0
       /\ (pc = "creating" /\ pc' = "polling") => lastDisplayedLength' = 0
       /\ (emitted' # <<>> \/ lastDisplayedLength' # lastDisplayedLength) =>
            \A c \in BagToSet(cycles), reply \in LogReplies :
                LogReply(c, reply) =>
                    (reply = OkOutput /\ Len(remoteLog) > lastDisplayedLength)]_vars

\* C7 witness: the cursor stands at 2 after the last log reply of the session
\* although the remote log has shrunk to one character.
C7_Witness ==
    /\ State = "SUCCEEDED"
    /\ lastDisplayedLength = 2
    /\ Len(remoteLog) = 1
    /\ ~appendOnly

\* C8 as claimed: a fetched log longer than the cursor always displays exactly
\* its suffix beyond the cursor, and the cursor becomes its length.
C8_IncrementIsSuffix ==
    [][\A c \in BagToSet(cycles) :
        (LogReply(c, OkOutput) /\ Len(remoteLog) > lastDisplayedLength) =>
            /\ emitted' = Substring(remoteLog, lastDisplayedLength)
            /\ lastDisplayedLength' = Len(remoteLog)]_vars

\* C8 as amended: a fetched log longer than the cursor moves the cursor to its
\* length and displays exactly its suffix beyond the old cursor, unless that
\* suffix is all blanks, in which case nothing is displayed; a log no longer
\* than the cursor displays nothing and leaves the cursor; and for an
\* append-only log the displayed increments, concatenated, are the prefix of
\* the log up to the cursor with the suppressed blank increments left out
\* (the prefix itself when it holds no blank).
C8_IncrementIsVisibleSuffix ==
    [][/\ \A c \in BagToSet(cycles) :
            LogReply(c, OkOutput) =>
                IF Len(remoteLog) > lastDisplayedLength
                THEN /\ lastDisplayedLength' = Len(remoteLog)
                     /\ emitted' =
                          IF \A i \in (lastDisplayedLength + 1)..Len(remoteLog) : remoteLog[i] = " "
                          THEN <<>>
                          ELSE Substring(remoteLog, lastDisplayedLength)
                ELSE /\ lastDisplayedLength' = lastDisplayedLength
                     /\ emitted' = <<>>
       /\ appendOnly' =>
            /\ lastDisplayedLength' <= Len(remoteLog')
            /\ Trim(shown') = Trim(SubSeq(remoteLog', 1, lastDisplayedLength'))
            /\ (\A i \in 1..lastDisplayedLength' : remoteLog'[i] # " ") =>
                  shown' = SubSeq(remoteLog', 1, lastDisplayedLength')]_vars

\* C8 witness: after "A" was displayed, the log "AB" was fetched and exactly
\* "B" was displayed, the cursor moving to 2.
C8_Witness ==
    /\ appendOnly
    /\ remoteLog = <<"A", "B">>
    /\ emitted = <<"B">>
    /\ shown = <<"A", "B">>
    /\ lastDisplayedLength = 2

\* C9: the process has an exit code exactly when it has exited, the code is
\* 0 or 1, it is 0 exactly when the session resolved SUCCEEDED, and it is 1
\* after FAILED, TIMED_OUT, a failed trigger and a missing variable.
C9_ExitCode ==
    /\ exitCode \in {-1, 0, 1}
    /\ (exitCode = -1) <=> (pc # "exited")
    /\ (exitCode = 0) <=> (State = "SUCCEEDED")
    /\ State \in {"FAILED", "TIMED_OUT"} => exitCode = 1
    /\ (pc = "exited" /\ promise = "none") => exitCode = 1
    /\ (missing # {} /\ pc # "start") => (exitCode = 1 /\ pc = "exited")

\* C9 witness: a session that resolved SUCCEEDED and exited with code 0.
C9_Witness == pc = "exited" /\ exitCode = 0 /\ State = "SUCCEEDED"

\* C10: a cycle holding any status outside finished, failed, failed-build and
\* cancelled ends, when its log answers, with the session still RUNNING, the
\* process alive, the timer untouched and no outcome produced; noting such a
\* status does not end the session either.
C10_InProgressFallback ==
    [][/\ \A c \in BagToSet(cycles), reply \in LogReplies :
            (LogReply(c, reply)
                /\ c.status \notin {"finished", "failed", "failed-build", "cancelled"}) =>
                /\ State' = "RUNNING"
                /\ pc' = "polling"
                /\ exitCode' = -1
                /\ settleCalls' = 0
                /\ timerArmed' = timerArmed
                /\ cycles' = Without(c)
       /\ \A reply \in StatusReplies(Statuses) :
            StatusReply(reply) => (State' = "RUNNING" /\ timerArmed' = timerArmed)]_vars

\* C10 witness: a cycle that fetched the unrecognized status "paused" has
\* completed, and the session is running with the timer armed.
C10_Witness ==
    /\ pc = "polling"
    /\ State = "RUNNING"
    /\ timerArmed
    /\ lastStatus = "paused"
    /\ cycles = EmptyBag

\* C11: a trigger reply of 202 whose payload has no identifier never starts
\* the polling phase: whenever the process is polling, the deployment handle
\* is the identifier the trigger returned.
C11_NoInventedHandle == pc = "polling" => deploymentId = "id"

\* C12: at most one poll cycle is waiting for a response at any moment.
C12_NoOverlap == BagCardinality(cycles) <= 1

\* C13: when some required variable is unset or empty, the process never
\* sends the POST or anything else: once it has left "start" it has exited
\* with code 1, having reported exactly the set of all the missing names; and
\* nothing is reported when none is missing.
C13_ReportsAllMissing ==
    /\ missing # {} =>
          /\ pc \in {"start", "exited"}
          /\ promise = "none"
          /\ cycles = EmptyBag
          /\ deploymentId = "none"
          /\ ~timerArmed
          /\ pc = "exited" => (exitCode = 1 /\ reported = missing /\ error = NoError)
    /\ missing = {} => reported = {}
    /\ pc = "start" => reported = {}

\* C13 witness: all four variables were missing and all four were reported.
C13_Witness == pc = "exited" /\ exitCode = 1 /\ reported = EnvNames /\ Cardinality(reported) = 4

\* C14: from the moment a cycle has classified its status as a terminal
\* failure and sent the final log request, no step of the session sends any
\* further status, log or final-log request.
C14_OnlyFinalFetch ==
    [][(\E c \in BagToSet(cycles) : c.at = "final") => ~SendsRequest]_vars

\* C15: once the timer has been cleared - by the timeout, by a cycle that
\* classified finished, a terminal failure or cancelled, or by the catch of
\* an unexpected error - the timer callback never runs again: no step
\* advances the clock or starts a cycle, and the timer stays cleared.  Every
\* step that settles the session or sends a final log request clears it.
C15_TimerStaysCancelled ==
    [][/\ (pc = "polling" /\ (~timerArmed \/ \E c \in BagToSet(cycles) : c.at = "final")) =>
            /\ now' = now
            /\ Waiting(cycles', "status") <= Waiting(cycles, "status")
            /\ ~timerArmed'
       /\ (State = "RUNNING" /\ State' \in Terminal) => (~timerArmed' /\ pc' = "exited")
       /\ Waiting(cycles', "final") > Waiting(cycles, "final") => ~timerArmed'
       /\ pc # "exited"]_vars

\* C15 witness: the timer was cleared by a cycle that is waiting for its final
\* log while another cycle still waits for its status, and the process lives.
C15_Witness ==
    /\ pc = "polling"
    /\ ~timerArmed
    /\ BagIn(StatusWait, cycles)
    /\ BagIn(FinalWait("failed"), cycles)
    /\ now - startTime = 2 * POLL_INTERVAL

\* C16: a cycle announces a status exactly when its status fetch succeeded
\* and returned a value other than the last status noted ("" at first), and
\* that value is then the last status noted; no other step announces anything
\* or changes the last status noted, so each announcement differs from the
\* one before it and repeated polls of one status announce it once.
C16_NotifiesOnChange ==
    [][/\ \A reply \in StatusReplies(Statuses) :
            StatusReply(reply) =>
                IF reply \in FailedStatusReplies
                THEN notified' = "" /\ lastStatus' = lastStatus
                ELSE /\ notified' = (IF reply.body # lastStatus THEN reply.body ELSE "")
                     /\ lastStatus' = reply.body
       /\ notified' # "" => (notified' # lastStatus /\ lastStatus' = notified')
       /\ notified' = "" => lastStatus' = lastStatus]_vars

\* C16 witness: two overlapping cycles both fetched "deploying"; the second
\* fetch announced nothing.
C16_Witness ==
    /\ lastStatus = "deploying"
    /\ notified = ""
    /\ cycles = (LogWait("deploying") :> 2)
    /\ now - startTime = 2 * POLL_INTERVAL

\* Replies to a log request that are a failed fetch: a transport error, a
\* parse error, or a status other than 200.
FailedLogReplies == {r \in LogReplies : r.kind # "http" \/ r.code # 200}

\* C17: when the log fetch of a cycle fails, nothing is displayed and the
\* cursor stays, and the cycle classifies the status it holds all the same:
\* finished resolves SUCCEEDED with exit code 0, failed and failed-build clear
\* the timer and send the final log request (whose answer rejects FAILED),
\* cancelled rejects FAILED, and any other status ends the cycle with the
\* session RUNNING.  Stated per step in which a cycle leaves its wait: the
\* step has these effects, or it is not the handling of a failed fetch.
C17_LogFetchBestEffort ==
    [][/\ \A c \in {x \in BagToSet(cycles) : x.at = "log"} :
            CopiesIn(c, cycles') < CopiesIn(c, cycles) =>
                \/ /\ emitted' = <<>>
                   /\ lastDisplayedLength' = lastDisplayedLength
                   /\ shown' \in {shown, <<>>}
                   /\ CASE c.status = "finished" ->
                             State' = "SUCCEEDED" /\ exitCode' = 0 /\ ~timerArmed'
                        [] c.status \in {"failed", "failed-build"} ->
                             /\ State' = "RUNNING"
                             /\ ~timerArmed'
                             /\ cycles' = With(Without(c), FinalWait(c.status))
                        [] c.status = "cancelled" ->
                             /\ State' = "FAILED"
                             /\ error' = Err("Deployment was cancelled")
                             /\ exitCode' = 1
                        [] OTHER ->
                             /\ State' = "RUNNING"
                             /\ timerArmed' = timerArmed
                             /\ cycles' = Without(c)
                \/ \A reply \in FailedLogReplies : ~LogReply(c, reply)
       /\ \A c \in {x \in BagToSet(cycles) : x.at = "final"} :
            CopiesIn(c, cycles') < CopiesIn(c, cycles) =>
                \/ State' = "FAILED" /\ error'.status = c.status /\ exitCode' = 1
                \/ \A reply \in LogReplies : ~FinalLogReply(c, reply)]_vars

\* C17 witness: the session resolved SUCCEEDED while the remote held the log
\* "AB" of which nothing had been displayed: the log fetch of the cycle that
\* fetched finished returned no text.
C17_Witness ==
    /\ State = "SUCCEEDED"
    /\ exitCode = 0
    /\ remoteLog = <<"A", "B">>
    /\ appendOnly
    /\ lastDisplayedLength = 0
    /\ shown = <<>>

\* C18: a fetched log that is longer than the cursor by blanks only displays
\* nothing and moves the cursor to its length; and whatever a step displays
\* is the fetched log from the cursor on, so text before the cursor, the
\* suppressed blanks included, is never displayed again.
C18_BlankAdvancesCursor ==
    [][/\ \A c \in {x \in BagToSet(cycles) : x.at = "log"} :
            (/\ CopiesIn(c, cycles') < CopiesIn(c, cycles)
             /\ Len(remoteLog) > lastDisplayedLength
             /\ \A i \in (lastDisplayedLength + 1)..Len(remoteLog) : remoteLog[i] = " "
             /\ LogReply(c, OkOutput)) =>
                /\ emitted' = <<>>
                /\ shown' \in {shown, <<>>}
                /\ lastDisplayedLength' = Len(remoteLog)
       /\ emitted' # <<>> =>
            /\ emitted' = Substring(remoteLog, lastDisplayedLength)
            /\ lastDisplayedLength' = Len(remoteLog)]_vars

\* C18 witness: of the log " A" the leading blank was fetched first and
\* suppressed, and the later fetch displayed "A" alone.
C18_Witness ==
    /\ appendOnly
    /\ remoteLog = <<" ", "A">>
    /\ lastDisplayedLength = 2
    /\ emitted = <<"A">>
    /\ shown = <<"A">>

\* C19: a tick that finds the elapsed time above the ceiling resolves
\* TIMED_OUT whatever requests are unanswered, and a session that is RUNNING
\* does not stay RUNNING with its timer armed for ever: it settles, or a
\* cycle classifies a terminal failure and waits for the final log.
C19_EventuallyTimesOut ==
    /\ [][(now' # now /\ now' - startTime' > TIMEOUT) =>
            (State' = "TIMED_OUT" /\ cycles' = cycles)]_vars
    /\ (State = "RUNNING") ~>
            (State \in Terminal \/ \E c \in BagToSet(cycles) : c.at = "final")

\* C19 witness: the session timed out although no status request was ever
\* answered; two of them are still waiting.
C19_Witness ==
    /\ State = "TIMED_OUT"
    /\ lastStatus = ""
    /\ cycles = (StatusWait :> 2)
    /\ now - startTime > TIMEOUT

\* C20: a session never times out while a cycle holds the status failed or
\* failed-build that it fetched.
C20_FailedNeverTimesOut ==
    State = "TIMED_OUT" =>
        \A c \in BagToSet(cycles) : c.status \notin {"failed", "failed-build"}

====
